---- MODULE Spec2Model ----
(***************************************************************************)
(* LiftLog calorie tracking: the calories slice (entries, dailyGoal,       *)
(* isHydrated), its reducers, the two effects that load it from and save   *)
(* it to the preference service, and the screen handlers that dispatch to  *)
(* it.                                                                     *)
(***************************************************************************)
EXTENDS Integers, Sequences, FiniteSets, TLC

VARIABLES
  calories,      \* the slice state: [entries, dailyGoal, isHydrated]
  disk,          \* the preference service's durable values: [goal, entries]
  disk0,         \* what the preference service held when the process started
  loads,         \* one record per run of the initializeCaloriesStateSlice effect
  saves,         \* one record per Promise.all the save effect has started
  held,          \* every (dailyGoal, entries) pair the slice has held, in the
                 \* runs that record them (empty in the runs that do not)
  dispatched,    \* the number of store actions the screen handlers sent, mod 2
  nextId,        \* the next identifier uuidv4 hands out
  selectedDate,  \* the calories screen's selected calendar day
  editingEntry,  \* the entry open in the edit dialog: <<>> or <<entry>>
  errors,        \* the error texts shown: [manual, edit, goal, usda], TRUE
                 \* when set
  calculator,    \* the calculator screen: [calorieTarget, deltaPerDay, error,
                 \* applySuccess]; an unset number is <<>>, a set one <<n>>
  lastCall,      \* the last operation a caller invoked, in the runs that
                 \* record it: <<>> or <<[name, arg, tick]>>
  searchText,    \* the calories screen's search field
  usda,          \* the nutrition lookup dialog: [dialogOpen, results, loading]
  fetches        \* one record per request fetchUsdaFoods has sent

vars == <<calories, disk, disk0, loads, saves, held, dispatched,
          nextId, selectedDate, editingEntry, errors, calculator, lastCall,
          searchText, usda, fetches>>

----------------------------------------------------------------------------
(* Bounds of the model *)

MaxInits == 1        \* dispatches of initializeCaloriesStateSlice
MaxSaves == 1        \* saves the save effect may start
MaxIds == 1          \* identifiers uuidv4 hands out
MaxEntries == 3      \* entries in the slice taken on its own

(* The host's clock and zone: hours since the epoch, zone offset in hours *)

ZoneOffsetHours == 2
NowHours == 47
\* The days before and after today the day navigation goes to.
MaxDays == 1
MaxFetches == 2      \* requests fetchUsdaFoods may send

(* Program constants *)

DefaultGoal == 2400

----------------------------------------------------------------------------
(* Sequence helpers *)

Range(s) == {s[i] : i \in DOMAIN s}

----------------------------------------------------------------------------
(* The calories slice: initial state and reducers *)

initialState ==
  [entries |-> <<>>, dailyGoal |-> DefaultGoal, isHydrated |-> FALSE]

\* A setDailyGoal that rebuilds the slice from initialState.
setDailyGoalFromInitial(state, payload) ==
  [initialState EXCEPT !.dailyGoal = payload]

setDailyGoal(state, payload) == [state EXCEPT !.dailyGoal = payload]

setEntries(state, payload) == [state EXCEPT !.entries = payload]

addEntry(state, payload) ==
  [state EXCEPT !.entries = <<payload>> \o state.entries]

\* A removeEntry whose filter keeps the matching entries.
removeEntryInverted(state, payload) ==
  [state EXCEPT !.entries =
     SelectSeq(state.entries, LAMBDA entry : entry.id = payload)]

\* A removeEntry that takes out the first entry with the id and no other.
removeEntrySplice(state, payload) ==
  LET found == {i \in DOMAIN state.entries : state.entries[i].id = payload}
      index == CHOOSE i \in found : \A j \in found : i <= j
  IN IF found = {} THEN state
     ELSE [state EXCEPT !.entries =
             SubSeq(state.entries, 1, index - 1)
               \o SubSeq(state.entries, index + 1, Len(state.entries))]

removeEntry(state, payload) ==
  [state EXCEPT !.entries =
     SelectSeq(state.entries, LAMBDA entry : entry.id # payload)]

setCaloriesHydrated(state, payload) == [state EXCEPT !.isHydrated = payload]

\* A reducer that takes updateEntry for addEntry.
caloriesReducerUpdateAdds(state, action) ==
  CASE action.type = "setDailyGoal" -> setDailyGoal(state, action.payload)
    [] action.type = "setEntries" -> setEntries(state, action.payload)
    [] action.type \in {"addEntry", "updateEntry"} ->
         addEntry(state, action.payload)
    [] action.type = "removeEntry" -> removeEntry(state, action.payload)
    [] action.type = "setCaloriesHydrated" ->
         setCaloriesHydrated(state, action.payload)
    [] OTHER -> state

\* The slice's reducer: an action type the slice does not define (updateEntry,
\* initializeCaloriesStateSlice) leaves the state as it is.
caloriesReducer(state, action) ==
  CASE action.type = "setDailyGoal" -> setDailyGoal(state, action.payload)
    [] action.type = "setEntries" -> setEntries(state, action.payload)
    [] action.type = "addEntry" -> addEntry(state, action.payload)
    [] action.type = "removeEntry" -> removeEntry(state, action.payload)
    [] action.type = "setCaloriesHydrated" ->
         setCaloriesHydrated(state, action.payload)
    [] OTHER -> state

Action(type, payload) == [type |-> type, payload |-> payload]

----------------------------------------------------------------------------
(* The save effect *)

\* A listener list that also names setCaloriesHydrated.
SaveEffectActionsWithHydrated ==
  {"setDailyGoal", "setEntries", "addEntry", "removeEntry",
   "setCaloriesHydrated"}

\* The action creators the save effect listens to.
SaveEffectActions == {"setDailyGoal", "setEntries", "addEntry", "removeEntry"}

Snapshot(state) == <<state.dailyGoal, state.entries>>

\* A save effect without the isHydrated guard.
saveEffectUnguarded(stateAfterReduce, started) ==
  Append(started,
    [goal |-> stateAfterReduce.dailyGoal,
     entries |-> stateAfterReduce.entries,
     goalSt |-> "pending",
     entriesSt |-> "pending"])

\* The effect's body: nothing while the slice is not hydrated, else one
\* setCalorieGoal and one setCalorieEntries call, both started at once.
saveEffect(stateAfterReduce, started) ==
  IF ~stateAfterReduce.isHydrated
    THEN started
    ELSE Append(started,
           [goal |-> stateAfterReduce.dailyGoal,
            entries |-> stateAfterReduce.entries,
            goalSt |-> "pending",
            entriesSt |-> "pending"])

\* dispatch: the reducer runs, then the effects registered for the action
\* type run on the state after the reduce.  store is [calories, saves, held].
Dispatch(store, action) ==
  LET after == caloriesReducer(store.calories, action)
  IN [calories |-> after,
      saves |-> IF action.type \in SaveEffectActions
                  THEN saveEffect(after, store.saves)
                  ELSE store.saves,
      held |-> IF store.held = {} THEN {}
               ELSE store.held \cup {Snapshot(after)}]

Store == [calories |-> calories, saves |-> saves, held |-> held]

----------------------------------------------------------------------------
(* The load effect *)

NewLoad ==
  [goalSt |-> "pending", goal |-> 0,
   entriesSt |-> "pending", entries |-> <<>>,
   applied |-> FALSE]

\* Promise.race in place of Promise.all: fulfilled by the first read.
loadJoinedRace(load) == load.goalSt = "ok" \/ load.entriesSt = "ok"

\* Promise.allSettled in place of Promise.all: runs on with what was read.
loadJoinedAllSettled(load) ==
  /\ load.goalSt # "pending"
  /\ load.entriesSt # "pending"
  /\ (load.goalSt = "ok" \/ load.entriesSt = "ok")

\* Promise.all over the two reads: fulfilled once both have resolved.
loadJoined(load) == load.goalSt = "ok" /\ load.entriesSt = "ok"

\* The effect's continuation after the await.
loadContinuation(store, load) ==
  Dispatch(
    Dispatch(
      Dispatch(store, Action("setDailyGoal", load.goal)),
      Action("setEntries", load.entries)),
    Action("setCaloriesHydrated", TRUE))

loadSettled(load) == load.goalSt # "pending" /\ load.entriesSt # "pending"

\* What is left of a load once both reads have settled: the values read are
\* no longer reachable from any promise.
Forget(load) ==
  IF loadSettled(load)
    THEN [load EXCEPT !.goal = 0, !.entries = <<>>]
    ELSE load

\* One of the two reads of load i has settled, leaving the load as `load`.
LoadSettles(i, load) ==
  LET joined == loadJoined(load)
      next == IF joined THEN loadContinuation(Store, load) ELSE Store
  IN /\ loads' = [loads EXCEPT ![i] = Forget([load EXCEPT !.applied = joined])]
     /\ calories' = next.calories
     /\ saves' = next.saves
     /\ held' = next.held
     /\ UNCHANGED <<disk, disk0, dispatched, nextId, selectedDate,
                    editingEntry, errors, calculator, lastCall,
                 searchText, usda, fetches>>

\* The host dispatches initializeCaloriesStateSlice at start, and again once
\* the load before it has settled (a retry, or a further initialisation).
InitializeCaloriesStateSlice ==
  /\ \A i \in DOMAIN loads : loadSettled(loads[i])
  /\ loads' = Append(loads, NewLoad)
  /\ UNCHANGED <<calories, disk, disk0, saves, held, dispatched, nextId,
                 selectedDate, editingEntry, errors, calculator, lastCall,
                 searchText, usda, fetches>>

GetCalorieGoalResolves(i) ==
  /\ loads[i].goalSt = "pending"
  /\ LoadSettles(i, [loads[i] EXCEPT !.goalSt = "ok", !.goal = disk.goal])

GetCalorieGoalFails(i) ==
  /\ loads[i].goalSt = "pending"
  /\ LoadSettles(i, [loads[i] EXCEPT !.goalSt = "failed"])

GetCalorieEntriesResolves(i) ==
  /\ loads[i].entriesSt = "pending"
  /\ LoadSettles(i, [loads[i] EXCEPT !.entriesSt = "ok",
                                     !.entries = disk.entries])

GetCalorieEntriesFails(i) ==
  /\ loads[i].entriesSt = "pending"
  /\ LoadSettles(i, [loads[i] EXCEPT !.entriesSt = "failed"])

----------------------------------------------------------------------------
(* The preference service settling the writes of a save *)

SaveFrame ==
  UNCHANGED <<calories, disk0, loads, held, dispatched, nextId,
              selectedDate, editingEntry, errors, calculator, lastCall,
                 searchText, usda, fetches>>

saveSettled(save) == save.goalSt # "pending" /\ save.entriesSt # "pending"

\* What is left of a save once both writes have settled: only their outcomes.
Settle(save) ==
  IF saveSettled(save)
    THEN [save EXCEPT !.goal = 0, !.entries = <<>>]
    ELSE save

SetCalorieGoalResolves(k) ==
  /\ saves[k].goalSt = "pending"
  /\ disk' = [disk EXCEPT !.goal = saves[k].goal]
  /\ saves' = [saves EXCEPT ![k] = Settle([@ EXCEPT !.goalSt = "ok"])]
  /\ SaveFrame

SetCalorieGoalFails(k) ==
  /\ saves[k].goalSt = "pending"
  /\ saves' = [saves EXCEPT ![k] = Settle([@ EXCEPT !.goalSt = "failed"])]
  /\ UNCHANGED disk
  /\ SaveFrame

SetCalorieEntriesResolves(k) ==
  /\ saves[k].entriesSt = "pending"
  /\ disk' = [disk EXCEPT !.entries = saves[k].entries]
  /\ saves' = [saves EXCEPT ![k] = Settle([@ EXCEPT !.entriesSt = "ok"])]
  /\ SaveFrame

SetCalorieEntriesFails(k) ==
  /\ saves[k].entriesSt = "pending"
  /\ saves' = [saves EXCEPT ![k] = Settle([@ EXCEPT !.entriesSt = "failed"])]
  /\ UNCHANGED disk
  /\ SaveFrame

----------------------------------------------------------------------------
(* Calendar days in the device's zone; an instant is a count of hours *)

toLocalDate(instant) == (instant + ZoneOffsetHours) \div 24

toLocalTime(instant) == (instant + ZoneOffsetHours) % 24

LocalDateNow == toLocalDate(NowHours)

\* The current instant, whatever the selected day.
createRecordedAtIsoOfNow(date, now) ==
  now

\* The selected day at the current local time of day, as an instant.
createRecordedAtIso(date, now) ==
  date * 24 + toLocalTime(now) - ZoneOffsetHours

\* Array.prototype.sort with the page's comparator: the latest entry first,
\* entries of one instant in the order they had.
RECURSIVE sort(_)
sort(entries) ==
  IF entries = <<>> THEN <<>>
  ELSE LET first == Head(entries)
           rest == sort(Tail(entries))
       IN SelectSeq(rest, LAMBDA entry :
                      entry.recordedAtIso > first.recordedAtIso)
          \o <<first>>
          \o SelectSeq(rest, LAMBDA entry :
                         entry.recordedAtIso <= first.recordedAtIso)

\* The filter of entriesForSelectedDay with every entry let through.
entriesForSelectedDayUnfiltered(entries, date) ==
  sort(entries)

entriesForSelectedDay(entries, date) ==
  sort(SelectSeq(entries,
                 LAMBDA entry : toLocalDate(entry.recordedAtIso) = date))

\* Array.prototype.reduce with (acc, entry) => acc + entry.calories.
RECURSIVE reduce(_, _)
reduce(entries, acc) ==
  IF entries = <<>> THEN acc
  ELSE reduce(Tail(entries), acc + Head(entries).calories)

\* The summary of the day's entries.
summary(dayEntries, dailyGoal) ==
  LET consumed ==
        reduce(SelectSeq(dayEntries, LAMBDA entry : entry.type = "consumed"), 0)
      burned ==
        reduce(SelectSeq(dayEntries, LAMBDA entry : entry.type = "burned"), 0)
  IN [goal |-> dailyGoal, consumed |-> consumed, burned |-> burned,
      net |-> consumed - burned]

\* ListHeader: what remains to the goal.
goalDifference(daySummary) == daySummary.goal - daySummary.net

----------------------------------------------------------------------------
(* Text fields: a text is a sequence of characters *)

RECURSIVE TrimStart(_)
TrimStart(text) ==
  IF text # <<>> /\ Head(text) = " " THEN TrimStart(Tail(text)) ELSE text

RECURSIVE TrimEnd(_)
TrimEnd(text) ==
  IF text # <<>> /\ text[Len(text)] = " "
    THEN TrimEnd(SubSeq(text, 1, Len(text) - 1))
    ELSE text

Trim(text) == TrimEnd(TrimStart(text))

\* Math.round on a number given in tenths: the nearest integer, halves up.
MathRound(tenths) == (tenths + 5) \div 10

\* A parsed number field: finite is FALSE for NaN, tenths is the value * 10.
Parsed(finite, tenths) == [finite |-> finite, tenths |-> tenths]

\* Number.parseInt of a decimal text: the digits before the decimal point.
ParseInt(text) ==
  IF text.tenths >= 0 THEN text.tenths \div 10 ELSE -((-text.tenths) \div 10)

NameInputs == {<<"t", "e", "a", " ">>}
NoteInputs == {<<" ">>}
CalorieInputs == {Parsed(TRUE, 1204)}
GoalInputs == {Parsed(TRUE, 18000)}
EntryTypes == {"consumed", "burned"}

\* An entry an earlier run of the app left in the preference service.
StoredEntry ==
  [id |-> 0, name |-> <<"o", "a", "t", "s">>, calories |-> 300,
   type |-> "consumed", note |-> <<>>, source |-> "usda",
   recordedAtIso |-> NowHours - 1]

StoredGoals == {2000}
StoredEntries == {<<StoredEntry>>}

----------------------------------------------------------------------------
(* Screen handlers *)

\* The record of a call, kept in the runs that record calls.
Called(name, arg) ==
  lastCall' = IF lastCall = <<>> THEN <<>>
              ELSE <<[name |-> name, arg |-> arg,
                      tick |-> 1 - lastCall[1].tick]>>

\* A handler's dispatch to the store.
UiDispatch(action) ==
  LET next == Dispatch(Store, action)
  IN /\ calories' = next.calories
     /\ saves' = next.saves
     /\ held' = next.held
     /\ dispatched' = (dispatched + 1) % 2

\* A handler that returns without an error text.
RejectedSilently(field) ==
  UNCHANGED <<calories, disk, disk0, loads, saves, held, dispatched, nextId,
              selectedDate, editingEntry, errors>>

\* A handler that returns after setting an error text.
Rejected(field) ==
  /\ errors' = [errors EXCEPT ![field] = TRUE]
  /\ UNCHANGED <<calories, disk, disk0, loads, saves, held,
                 dispatched, nextId, selectedDate, editingEntry>>

\* Calorie goal screen, Save.
onSave(inputValue) ==
  LET goal == ParseInt(inputValue)
  IN /\ Called("onSave", inputValue)
     /\ UNCHANGED <<calculator, searchText, usda, fetches>>
     /\ IF ~inputValue.finite \/ goal <= 0
          THEN Rejected("goal")
          ELSE /\ UiDispatch(Action("setDailyGoal", goal))
               /\ errors' = [errors EXCEPT !.goal = FALSE]
               /\ UNCHANGED <<disk, disk0, loads, nextId, selectedDate,
                              editingEntry>>

handleAddEntry(entry) ==
  /\ UiDispatch(Action("addEntry",
       [id |-> nextId,
        name |-> entry.name,
        calories |-> entry.calories,
        type |-> entry.type,
        note |-> entry.note,
        source |-> entry.source,
        recordedAtIso |-> createRecordedAtIso(selectedDate, NowHours)]))
  /\ nextId' = nextId + 1

\* Manual entry dialog, Save.
saveManualEntry(manualDialogType, manualName, manualCalories, manualNote) ==
  LET trimmedName == Trim(manualName)
  IN /\ Called("saveManualEntry",
               [name |-> manualName, calories |-> manualCalories])
     /\ UNCHANGED <<calculator, searchText, usda, fetches>>
     /\ IF trimmedName = <<>>
          THEN Rejected("manual")
        ELSE IF ~manualCalories.finite \/ manualCalories.tenths <= 0
          THEN Rejected("manual")
        ELSE /\ handleAddEntry(
                  [name |-> trimmedName,
                   calories |-> MathRound(manualCalories.tenths),
                   type |-> manualDialogType,
                   note |-> IF Trim(manualNote) # <<>>
                              THEN <<Trim(manualNote)>> ELSE <<>>,
                   source |-> "manual"])
             /\ errors' = [errors EXCEPT !.manual = FALSE]
             /\ UNCHANGED <<disk, disk0, loads, selectedDate, editingEntry>>

openEditEntry(entry) ==
  /\ Called("openEditEntry", <<>>)
  /\ UNCHANGED <<calculator, searchText, usda, fetches>>
  /\ editingEntry' = <<entry>>
  /\ errors' = [errors EXCEPT !.edit = FALSE]
  /\ UNCHANGED <<calories, disk, disk0, loads, saves, held,
                 dispatched, nextId, selectedDate>>

closeEditEntry ==
  /\ Called("closeEditEntry", <<>>)
  /\ UNCHANGED <<calculator, searchText, usda, fetches>>
  /\ editingEntry # <<>>
  /\ editingEntry' = <<>>
  /\ errors' = [errors EXCEPT !.edit = FALSE]
  /\ UNCHANGED <<calories, disk, disk0, loads, saves, held,
                 dispatched, nextId, selectedDate>>

\* The edited entry with the current instant as its recordedAt.
editedEntryOfNow(entry, editName, editCalories, editNote, editType) ==
  [entry EXCEPT !.name = Trim(editName),
                !.calories = MathRound(editCalories.tenths),
                !.note = IF Trim(editNote) # <<>>
                           THEN <<Trim(editNote)>> ELSE <<>>,
                !.type = editType,
                !.recordedAtIso = NowHours]

\* The payload of updateEntry: the entry being edited with the dialog's
\* name, calories, note and type.
editedEntry(entry, editName, editCalories, editNote, editType) ==
  [entry EXCEPT !.name = Trim(editName),
                !.calories = MathRound(editCalories.tenths),
                !.note = IF Trim(editNote) # <<>>
                           THEN <<Trim(editNote)>> ELSE <<>>,
                !.type = editType]

\* Edit dialog, Save.  The call is recorded with the payload it dispatches.
saveEditedEntry(editName, editCalories, editNote, editType) ==
  LET refused == \/ Trim(editName) = <<>>
                 \/ ~editCalories.finite
                 \/ editCalories.tenths <= 0
      payload == editedEntry(editingEntry[1], editName, editCalories,
                             editNote, editType)
  IN /\ editingEntry # <<>>
     /\ Called("saveEditedEntry",
               [name |-> editName, calories |-> editCalories,
                payload |-> IF refused THEN <<>> ELSE <<payload>>])
     /\ UNCHANGED <<calculator, searchText, usda, fetches>>
     /\ IF Trim(editName) = <<>>
          THEN Rejected("edit")
        ELSE IF ~editCalories.finite \/ editCalories.tenths <= 0
          THEN Rejected("edit")
        ELSE /\ UiDispatch(Action("updateEntry", payload))
             /\ editingEntry' = <<>>
             /\ UNCHANGED <<disk, disk0, loads, nextId, selectedDate, errors>>

\* Edit dialog, Delete.
deleteEditedEntry ==
  /\ editingEntry # <<>>
  /\ Called("deleteEditedEntry", <<>>)
  /\ UNCHANGED <<calculator, searchText, usda, fetches>>
  /\ UiDispatch(Action("removeEntry", editingEntry[1].id))
  /\ editingEntry' = <<>>
  /\ UNCHANGED <<disk, disk0, loads, nextId, selectedDate, errors>>

\* The rest of the state, for the handlers that set the page's own state.
PageFrame ==
  UNCHANGED <<calories, disk, disk0, loads, saves, held, dispatched, nextId,
              editingEntry, errors, calculator, usda, fetches>>

\* Day navigation, within MaxDays days of today.
goToPreviousDay ==
  /\ selectedDate > LocalDateNow - MaxDays
  /\ Called("goToPreviousDay", <<>>)
  /\ selectedDate' = selectedDate - 1
  /\ UNCHANGED searchText
  /\ PageFrame

goToNextDay ==
  /\ selectedDate < LocalDateNow + MaxDays
  /\ Called("goToNextDay", <<>>)
  /\ selectedDate' = selectedDate + 1
  /\ UNCHANGED searchText
  /\ PageFrame

goToToday ==
  /\ Called("goToToday", <<>>)
  /\ selectedDate' = LocalDateNow
  /\ UNCHANGED searchText
  /\ PageFrame

\* The search field's onChangeText.
setSearchText(value) ==
  /\ Called("setSearchText", <<>>)
  /\ searchText' = value
  /\ UNCHANGED selectedDate
  /\ PageFrame

----------------------------------------------------------------------------
(* Nutrition lookup: selecting a candidate.  A candidate is
   [description, brandName, foodNutrients, servingSize, servingSizeUnit]; a
   nutrient is [nutrientNumber, nutrientName, value], value being <<>> when
   absent and <<tenths>> when present; an absent text is <<>>, an absent
   servingSize 0 *)

toLocaleLowerCase(text) ==
  [i \in DOMAIN text |->
     CASE text[i] = "E" -> "e"
       [] text[i] = "N" -> "n"
       [] text[i] = "R" -> "r"
       [] text[i] = "G" -> "g"
       [] text[i] = "Y" -> "y"
       [] OTHER -> text[i]]

isEnergy(nutrient) ==
  \/ nutrient.nutrientNumber = "208"
  \/ toLocaleLowerCase(nutrient.nutrientName) = <<"e", "n", "e", "r", "g", "y">>

\* Array.prototype.find: <<>> or <<the first element that matches>>.
RECURSIVE find(_)
find(foodNutrients) ==
  IF foodNutrients = <<>> THEN <<>>
  ELSE IF isEnergy(Head(foodNutrients)) THEN <<Head(foodNutrients)>>
  ELSE find(Tail(foodNutrients))

\* The note of an entry made from a candidate: the serving description and
\* the brand, those that are present, joined by the separator.
usdaNote(food) ==
  LET servingDescription ==
        IF food.servingSize # 0 /\ food.servingSizeUnit # <<>>
          THEN <<"Per ", ToString(food.servingSize), " ">>
                 \o food.servingSizeUnit
          ELSE <<>>
      brand == IF food.brandName # <<>>
                 THEN <<"Brand: ">> \o food.brandName ELSE <<>>
      joined == IF servingDescription # <<>> /\ brand # <<>>
                  THEN servingDescription \o <<" * ">> \o brand
                  ELSE servingDescription \o brand
  IN IF joined # <<>> THEN <<joined>> ELSE <<>>

\* The four setters closeUsdaDialog and openUsdaDialog call.  No request is
\* cancelled: those sent before are marked as sent before the dialog was
\* last closed or opened.
setUsdaDialog(open) ==
  /\ usda' = [dialogOpen |-> open, results |-> <<>>, loading |-> FALSE]
  /\ errors' = [errors EXCEPT !.usda = FALSE]
  /\ fetches' = [k \in DOMAIN fetches |-> [fetches[k] EXCEPT !.stale = TRUE]]

\* energyNutrient?.value, a missing value counting as zero.
energyValueOrZero(food) ==
  LET energyNutrient == find(food.foodNutrients)
  IN IF energyNutrient = <<>> \/ energyNutrient[1].value = <<>>
       THEN <<0>>
       ELSE energyNutrient[1].value

\* energyNutrient?.value: <<>> when undefined.
energyValue(food) ==
  LET energyNutrient == find(food.foodNutrients)
  IN IF energyNutrient = <<>> THEN <<>> ELSE energyNutrient[1].value

handleSelectUsdaFood(food) ==
  LET energy == energyValue(food)
  IN /\ Called("handleSelectUsdaFood", food)
     /\ UNCHANGED <<calculator, searchText>>
     /\ IF energy = <<>>
          THEN Rejected("usda") /\ UNCHANGED <<usda, fetches>>
          ELSE /\ handleAddEntry(
                    [name |-> food.description,
                     calories |-> MathRound(energy[1]),
                     type |-> "consumed",
                     note |-> usdaNote(food),
                     source |-> "usda"])
               /\ setUsdaDialog(FALSE)
               /\ UNCHANGED <<disk, disk0, loads, selectedDate, editingEntry>>

\* The rest of the state, for the handlers of the lookup dialog.
UsdaFrame ==
  UNCHANGED <<calories, disk, disk0, loads, saves, held, dispatched, nextId,
              selectedDate, editingEntry, calculator, searchText>>

\* Lookup dialog, Close (or a tap outside it).
closeUsdaDialog ==
  /\ usda.dialogOpen
  /\ Called("closeUsdaDialog", <<>>)
  /\ setUsdaDialog(FALSE)
  /\ UsdaFrame

\* Calories page, Find food.
openUsdaDialog ==
  /\ ~usda.dialogOpen
  /\ Called("openUsdaDialog", <<>>)
  /\ setUsdaDialog(TRUE)
  /\ UsdaFrame

\* A request fetchUsdaFoods has sent: the query, how it settled, and whether
\* the dialog was closed or opened after it was sent.
NewFetch(query) == [query |-> query, status |-> "pending", stale |-> FALSE]

\* Lookup dialog, Search foods: up to the first await.
fetchUsdaFoods(usdaApiKey, usdaQuery) ==
  /\ usda.dialogOpen
  /\ Called("fetchUsdaFoods", <<>>)
  /\ UsdaFrame
  /\ IF Trim(usdaApiKey) = <<>> \/ Trim(usdaQuery) = <<>>
       THEN /\ errors' = [errors EXCEPT !.usda = TRUE]
            /\ UNCHANGED <<usda, fetches>>
       ELSE /\ usda' = [usda EXCEPT !.loading = TRUE]
            /\ errors' = [errors EXCEPT !.usda = FALSE]
            /\ fetches' = Append(fetches, NewFetch(Trim(usdaQuery)))

----------------------------------------------------------------------------
(* Search on the calories page *)

\* String.prototype.includes.
includes(text, query) ==
  \E i \in 0..(Len(text) - Len(query)) :
    SubSeq(text, i + 1, i + Len(query)) = query

\* The name alone.
searchedTextOfName(entry) ==
  entry.name

\* The text of an entry the search looks in: the name, a space, the note.
searchedText(entry) ==
  entry.name \o <<" ">> \o (IF entry.note = <<>> THEN <<>> ELSE entry.note[1])

filteredEntries(dayEntries, text) ==
  IF text = <<>> THEN dayEntries
  ELSE LET query == toLocaleLowerCase(text)
       IN SelectSeq(dayEntries, LAMBDA entry :
                      includes(toLocaleLowerCase(searchedText(entry)), query))

----------------------------------------------------------------------------
(* Calorie calculator screen, with metric units (useImperialUnits false).
   Weights, heights and weekly changes are parsed numbers in tenths; energies
   are kept in 1/8000 kcal, in which every intermediate value is whole *)

\* The activity factor, in thousandths.
getActivityFactor(level) ==
  CASE level = "sedentary" -> 1200
    [] level = "light" -> 1375
    [] level = "moderate" -> 1550
    [] level = "active" -> 1725
    [] level = "very" -> 1900

\* 8 * bmr with the term of a male for everyone.
bmr8OfMale(sex, weightKg, heightCm, ageValue) ==
  8 * weightKg.tenths + 5 * heightCm.tenths - 40 * ageValue + 40

\* 8 * bmr: 10 * weightKg + 6.25 * heightCm - 5 * ageValue + 5 (or - 161).
bmr8(sex, weightKg, heightCm, ageValue) ==
  IF sex = "male"
    THEN 8 * weightKg.tenths + 5 * heightCm.tenths - 40 * ageValue + 40
    ELSE 8 * weightKg.tenths + 5 * heightCm.tenths - 40 * ageValue - 1288

\* 8000 * dailyDelta whatever the goal type.
dailyDelta8000OfChange(goalType, changeValue) ==
  8000 * ((changeValue.tenths * 770) \div 7)

\* 8000 * dailyDelta: (weeklyChangeKg * KCAL_PER_KG) / 7, or 0.
dailyDelta8000(goalType, changeValue) ==
  IF goalType = "maintain" THEN 0 ELSE 8000 * ((changeValue.tenths * 770) \div 7)

\* 8000 * targetCalories.
targetCalories8000(sex, activity, goalType, weightKg, heightCm, ageValue, changeValue) ==
  LET tdee == bmr8(sex, weightKg, heightCm, ageValue)
                * getActivityFactor(activity)
      dailyDelta == dailyDelta8000(goalType, changeValue)
      target == IF goalType = "loss" THEN tdee - dailyDelta
                ELSE tdee + dailyDelta
  IN IF target > 0 THEN target ELSE 0

\* Math.round of a number given in 1/8000.
MathRound8000(x) == (x + 4000) \div 8000

CalculatorRejected ==
  calculator' = [calorieTarget |-> <<>>, deltaPerDay |-> <<>>,
                 error |-> TRUE, applySuccess |-> FALSE]

onCalculate(sex, activity, goalType, weight, height, age, changePerWeek) ==
  LET ageValue == ParseInt(age)
  IN /\ Called("onCalculate",
               [sex |-> sex, activity |-> activity, goalType |-> goalType,
                weight |-> weight, height |-> height, age |-> age,
                changePerWeek |-> changePerWeek])
     /\ UNCHANGED <<calories, disk, disk0, loads, saves, held, dispatched,
                    nextId, selectedDate, editingEntry, errors, searchText,
                    usda, fetches>>
     /\ IF ~weight.finite \/ weight.tenths <= 0
          THEN CalculatorRejected
        ELSE IF ~height.finite \/ height.tenths <= 0
          THEN CalculatorRejected
        ELSE IF ~age.finite \/ ageValue <= 0
          THEN CalculatorRejected
        ELSE IF goalType # "maintain"
                  /\ (~changePerWeek.finite \/ changePerWeek.tenths <= 0)
          THEN CalculatorRejected
        ELSE calculator' =
               [calorieTarget |->
                  <<MathRound8000(
                      targetCalories8000(sex, activity, goalType, weight,
                                         height, ageValue, changePerWeek))>>,
                deltaPerDay |->
                  <<MathRound8000(dailyDelta8000(goalType, changePerWeek))>>,
                error |-> FALSE,
                applySuccess |-> FALSE]

onApplyGoal ==
  /\ Called("onApplyGoal", <<>>)
  /\ UNCHANGED <<disk, disk0, loads, nextId, selectedDate, editingEntry,
                 errors, searchText, usda, fetches>>
  /\ IF calculator.calorieTarget # <<>>
       THEN /\ UiDispatch(Action("setDailyGoal", calculator.calorieTarget[1]))
            /\ calculator' = [calculator EXCEPT !.applySuccess = TRUE]
       ELSE UNCHANGED <<calories, saves, held, dispatched, calculator>>

----------------------------------------------------------------------------
(* The specification *)

\* The calories page as it mounts: no search text, the lookup dialog closed.
PageInit ==
  /\ searchText = <<>>
  /\ usda = [dialogOpen |-> FALSE, results |-> <<>>, loading |-> FALSE]
  /\ fetches = <<>>

InitWith(recorded, called) ==
  /\ calories = initialState
  /\ disk0 \in [goal : StoredGoals, entries : StoredEntries]
  /\ disk = disk0
  /\ loads = <<>>
  /\ saves = <<>>
  /\ held = recorded
  /\ dispatched = 0
  /\ nextId = 1
  /\ selectedDate = LocalDateNow
  /\ editingEntry = <<>>
  /\ errors = [manual |-> FALSE, edit |-> FALSE, goal |-> FALSE,
               usda |-> FALSE]
  /\ calculator = [calorieTarget |-> <<>>, deltaPerDay |-> <<>>,
                   error |-> FALSE, applySuccess |-> FALSE]
  /\ lastCall = called
  /\ PageInit

\* The part of the state space a run explores.
Within(maxInits, maxSaves) ==
  /\ Len(loads) <= maxInits
  /\ Len(saves) <= maxSaves
  /\ nextId <= MaxIds + 1

Step(maxInits, maxSaves) ==
  \/ InitializeCaloriesStateSlice /\ Within(maxInits, maxSaves)'
  \/ \E i \in DOMAIN loads :
       GetCalorieGoalResolves(i) /\ Within(maxInits, maxSaves)'
  \/ \E i \in DOMAIN loads : GetCalorieGoalFails(i)
  \/ \E i \in DOMAIN loads :
       GetCalorieEntriesResolves(i) /\ Within(maxInits, maxSaves)'
  \/ \E i \in DOMAIN loads : GetCalorieEntriesFails(i)
  \/ \E k \in DOMAIN saves : SetCalorieGoalResolves(k)
  \/ \E k \in DOMAIN saves : SetCalorieGoalFails(k)
  \/ \E k \in DOMAIN saves : SetCalorieEntriesResolves(k)
  \/ \E k \in DOMAIN saves : SetCalorieEntriesFails(k)
  \/ \E goal \in GoalInputs : onSave(goal) /\ Within(maxInits, maxSaves)'
  \/ \E name \in NameInputs, cal \in CalorieInputs, note \in NoteInputs :
       /\ saveManualEntry("burned", name, cal, note)
       /\ Within(maxInits, maxSaves)'
  \/ \E entry \in Range(entriesForSelectedDay(calories.entries, selectedDate)) :
       openEditEntry(entry)
  \/ closeEditEntry
  \/ \E type \in EntryTypes, name \in NameInputs, cal \in CalorieInputs,
        note \in NoteInputs : saveEditedEntry(name, cal, note, type)
  \/ deleteEditedEntry /\ Within(maxInits, maxSaves)'

\* One start of the app within the bounds.
Init == InitWith({}, <<>>)

Next == Step(MaxInits, MaxSaves)

Spec == Init /\ [][Next]_vars

\* A longer run, which records the snapshots the slice holds: a further
\* initialisation and a further save.
InitRecorded == InitWith({Snapshot(initialState)}, <<>>)

NextWide == Step(MaxInits + 1, MaxSaves + 1)

SpecWide == InitRecorded /\ [][NextWide]_vars

----------------------------------------------------------------------------
(* The screens with what a user can type or pick: texts that do not parse,
   values of zero and below one half, lookup candidates with and without an
   energy value, and the calculator *)

NameInputsWide == {<<"t", "e", "a", " ">>, <<" ">>}

CalorieInputsWide ==
  {Parsed(FALSE, 0), Parsed(TRUE, 0), Parsed(TRUE, 4), Parsed(TRUE, 1204)}

GoalInputsWide == {Parsed(FALSE, 0), Parsed(TRUE, 5), Parsed(TRUE, 18000)}

Nutrient(number, name, value) ==
  [nutrientNumber |-> number, nutrientName |-> name, value |-> value]

Protein == Nutrient("203", <<"P", "r", "o", "t", "e", "i", "n">>, <<130>>)

UsdaFoods ==
  { [description |-> <<"o", "a", "t", "s">>, brandName |-> <<>>,
     foodNutrients |->
       <<Protein, Nutrient("208", <<"E", "n", "e", "r", "g", "y">>, <<3894>>)>>,
     servingSize |-> 0, servingSizeUnit |-> <<>>],
    [description |-> <<"w", "a", "t", "e", "r">>, brandName |-> <<>>,
     foodNutrients |->
       <<Nutrient("208", <<"E", "n", "e", "r", "g", "y">>, <<0>>)>>,
     servingSize |-> 100, servingSizeUnit |-> <<"g">>],
    [description |-> <<"i", "c", "e">>, brandName |-> <<"a", "c", "m", "e">>,
     foodNutrients |->
       <<Nutrient("", <<"E", "N", "E", "R", "G", "Y">>, <<-20>>)>>,
     servingSize |-> 100, servingSizeUnit |-> <<"g">>],
    [description |-> <<"s", "a", "l", "t">>, brandName |-> <<>>,
     foodNutrients |-> <<Protein>>,
     servingSize |-> 0, servingSizeUnit |-> <<>>],
    [description |-> <<"t", "e", "a">>, brandName |-> <<>>,
     foodNutrients |->
       <<Nutrient("208", <<"E", "n", "e", "r", "g", "y">>, <<>>)>>,
     servingSize |-> 0, servingSizeUnit |-> <<>>] }

\* The candidate of that description.
Food(description) ==
  CHOOSE food \in UsdaFoods : food.description = description

\* The foods the remote service answers a query with; an answer without a
\* foods member counts as none.
UsdaAnswer(query) ==
  CASE query = <<"o", "a", "t", "s">> -> <<Food(<<"o", "a", "t", "s">>)>>
    [] query = <<"t", "e", "a">> ->
         <<Food(<<"t", "e", "a">>), Food(<<"s", "a", "l", "t">>)>>
    [] OTHER -> <<>>

\* fetchUsdaFoods after its awaits, the response being ok: the try block's
\* setUsdaResults, then the finally block.
FetchResolves(k) ==
  /\ fetches[k].status = "pending"
  /\ fetches' = [fetches EXCEPT ![k].status = "ok"]
  /\ usda' = [usda EXCEPT !.results = UsdaAnswer(fetches[k].query),
                          !.loading = FALSE]
  /\ UNCHANGED <<errors, lastCall>>
  /\ UsdaFrame

\* fetchUsdaFoods after its await, the request having failed or the response
\* not being ok: the catch block, then the finally block.
FetchFails(k) ==
  /\ fetches[k].status = "pending"
  /\ fetches' = [fetches EXCEPT ![k].status = "failed"]
  /\ usda' = [usda EXCEPT !.loading = FALSE]
  /\ errors' = [errors EXCEPT !.usda = TRUE]
  /\ UNCHANGED lastCall
  /\ UsdaFrame

CalculatorInput(sex, activity, goalType, weight, height, age, change) ==
  [sex |-> sex, activity |-> activity, goalType |-> goalType,
   weight |-> weight, height |-> height, age |-> age,
   changePerWeek |-> change]

CalculatorInputs ==
  { CalculatorInput("male", "moderate", "loss", Parsed(TRUE, 800),
                    Parsed(TRUE, 1800), Parsed(TRUE, 300), Parsed(TRUE, 5)),
    CalculatorInput("female", "sedentary", "loss", Parsed(TRUE, 400),
                    Parsed(TRUE, 1500), Parsed(TRUE, 800), Parsed(TRUE, 10)),
    CalculatorInput("female", "light", "maintain", Parsed(TRUE, 600),
                    Parsed(TRUE, 1650), Parsed(TRUE, 405), Parsed(FALSE, 0)),
    CalculatorInput("male", "very", "gain", Parsed(TRUE, 0),
                    Parsed(TRUE, 1800), Parsed(TRUE, 300), Parsed(TRUE, 5)),
    CalculatorInput("female", "active", "gain", Parsed(TRUE, 555),
                    Parsed(TRUE, 1620), Parsed(TRUE, 280), Parsed(TRUE, 3)),
    CalculatorInput("male", "moderate", "maintain", Parsed(TRUE, 800),
                    Parsed(TRUE, 1800), Parsed(TRUE, 300), Parsed(TRUE, 5)),
    CalculatorInput("male", "very", "maintain", Parsed(TRUE, 800),
                    Parsed(TRUE, 1800), Parsed(TRUE, 300), Parsed(TRUE, -10)),
    CalculatorInput("female", "sedentary", "maintain", Parsed(TRUE, 200),
                    Parsed(TRUE, 500), Parsed(TRUE, 800), Parsed(TRUE, 0)) }

\* The calories page with everything a user can type or pick.  The slice
\* changes only in a dispatch, so the reads that fail and the writes that
\* settle, which dispatch nothing, are left to Spec.
NextEntries ==
  \/ InitializeCaloriesStateSlice /\ Within(MaxInits, MaxSaves)'
  \/ \E i \in DOMAIN loads :
       GetCalorieGoalResolves(i) /\ Within(MaxInits, MaxSaves)'
  \/ \E i \in DOMAIN loads :
       GetCalorieEntriesResolves(i) /\ Within(MaxInits, MaxSaves)'
  \/ \E type \in EntryTypes, name \in NameInputsWide,
        cal \in CalorieInputsWide, note \in NoteInputs :
       /\ saveManualEntry(type, name, cal, note)
       /\ Within(MaxInits, MaxSaves)'
  \/ \E food \in UsdaFoods :
       handleSelectUsdaFood(food) /\ Within(MaxInits, MaxSaves)'
  \/ \E entry \in Range(entriesForSelectedDay(calories.entries, selectedDate)) :
       openEditEntry(entry)
  \/ closeEditEntry
  \/ \E type \in EntryTypes, name \in NameInputsWide,
        cal \in CalorieInputsWide, note \in NoteInputs :
       saveEditedEntry(name, cal, note, type)
  \/ deleteEditedEntry /\ Within(MaxInits, MaxSaves)'

SpecEntries == Init /\ [][NextEntries]_vars

\* The calories page over several days, the calls being recorded.  An
\* earlier run left an entry of 500 consumed late today, one of 200 burned in
\* today's first hour and one of 300 consumed in tomorrow's first hour, in
\* any order.
DayEntry(id, name, kcal, type, note, date, hour) ==
  [id |-> id, name |-> name, calories |-> kcal, type |-> type,
   note |-> note, source |-> "manual",
   recordedAtIso |-> date * 24 + hour - ZoneOffsetHours]

DayEntries ==
  { DayEntry(10, <<"E", "g", "g">>, 500, "consumed", << <<"R", "y", "e">> >>,
             LocalDateNow, 23),
    DayEntry(11, <<"r", "u", "n">>, 200, "burned", <<>>, LocalDateNow, 0),
    DayEntry(12, <<"g", "e", "l">>, 300, "consumed", <<>>,
             LocalDateNow + 1, 0) }

DayStoredEntries ==
  { entries \in [1..3 -> DayEntries] : Range(entries) = DayEntries }

SearchTexts ==
  { <<>>, <<"r", "y", "e">>, <<"E", "G">>, <<"g", "r">>, <<"g", " ">>,
    <<"n", "o">> }

InitDay ==
  /\ calories = initialState
  /\ disk0 \in [goal : StoredGoals, entries : DayStoredEntries]
  /\ disk = disk0
  /\ loads = <<>>
  /\ saves = <<>>
  /\ held = {}
  /\ dispatched = 0
  /\ nextId = 1
  /\ selectedDate = LocalDateNow
  /\ editingEntry = <<>>
  /\ errors = [manual |-> FALSE, edit |-> FALSE, goal |-> FALSE,
               usda |-> FALSE]
  /\ calculator = [calorieTarget |-> <<>>, deltaPerDay |-> <<>>,
                   error |-> FALSE, applySuccess |-> FALSE]
  /\ lastCall = <<[name |-> "none", arg |-> <<>>, tick |-> 0]>>
  /\ PageInit

NextDay ==
  \/ InitializeCaloriesStateSlice /\ Within(MaxInits, MaxSaves)'
  \/ \E i \in DOMAIN loads :
       GetCalorieGoalResolves(i) /\ Within(MaxInits, MaxSaves)'
  \/ \E i \in DOMAIN loads :
       GetCalorieEntriesResolves(i) /\ Within(MaxInits, MaxSaves)'
  \/ goToPreviousDay
  \/ goToNextDay
  \/ goToToday
  \/ \E type \in EntryTypes, name \in NameInputs, cal \in CalorieInputs,
        note \in NoteInputs :
       /\ saveManualEntry(type, name, cal, note)
       /\ Within(MaxInits, MaxSaves)'
  \/ /\ handleSelectUsdaFood(Food(<<"o", "a", "t", "s">>))
     /\ Within(MaxInits, MaxSaves)'

SpecDay == InitDay /\ [][NextDay]_vars

\* The same page with its search field, and no entry made.
NextSearch ==
  \/ InitializeCaloriesStateSlice /\ Within(MaxInits, MaxSaves)'
  \/ \E i \in DOMAIN loads :
       GetCalorieGoalResolves(i) /\ Within(MaxInits, MaxSaves)'
  \/ \E i \in DOMAIN loads :
       GetCalorieEntriesResolves(i) /\ Within(MaxInits, MaxSaves)'
  \/ goToPreviousDay
  \/ goToNextDay
  \/ goToToday
  \/ \E value \in SearchTexts : setSearchText(value)

SpecSearch == InitDay /\ [][NextSearch]_vars

\* What a user can type that the handlers must refuse: the manual and edit
\* dialogs (with one entry they accept), the goal screen and the calculator.
EntryInputsRefused ==
  { [name |-> <<" ">>, calories |-> Parsed(TRUE, 1204)],
    [name |-> <<"t", "e", "a", " ">>, calories |-> Parsed(FALSE, 0)],
    [name |-> <<"t", "e", "a", " ">>, calories |-> Parsed(TRUE, 0)],
    [name |-> <<"t", "e", "a", " ">>, calories |-> Parsed(TRUE, -50)],
    [name |-> <<"t", "e", "a", " ">>, calories |-> Parsed(TRUE, 1204)] }

GoalInputsRefused == {Parsed(FALSE, 0), Parsed(TRUE, 0), Parsed(TRUE, -50)}

CalculatorInputsRefused ==
  { CalculatorInput("male", "moderate", "loss", Parsed(TRUE, -800),
                    Parsed(TRUE, 1800), Parsed(TRUE, 300), Parsed(TRUE, 5)),
    CalculatorInput("male", "moderate", "loss", Parsed(TRUE, 800),
                    Parsed(TRUE, 0), Parsed(TRUE, 300), Parsed(TRUE, 5)),
    CalculatorInput("male", "moderate", "gain", Parsed(TRUE, 800),
                    Parsed(TRUE, 1800), Parsed(TRUE, 5), Parsed(TRUE, 5)),
    CalculatorInput("male", "moderate", "gain", Parsed(TRUE, 800),
                    Parsed(TRUE, 1800), Parsed(TRUE, 300), Parsed(TRUE, 0)),
    CalculatorInput("male", "moderate", "loss", Parsed(TRUE, 800),
                    Parsed(TRUE, 1800), Parsed(TRUE, 300), Parsed(FALSE, 0)) }

NextRefused ==
  \/ InitializeCaloriesStateSlice /\ Within(MaxInits, MaxSaves)'
  \/ \E i \in DOMAIN loads :
       GetCalorieGoalResolves(i) /\ Within(MaxInits, MaxSaves)'
  \/ \E i \in DOMAIN loads :
       GetCalorieEntriesResolves(i) /\ Within(MaxInits, MaxSaves)'
  \/ \E in \in EntryInputsRefused, note \in NoteInputs :
       /\ saveManualEntry("consumed", in.name, in.calories, note)
       /\ Within(MaxInits, MaxSaves)'
  \/ \E entry \in Range(entriesForSelectedDay(calories.entries, selectedDate)) :
       openEditEntry(entry)
  \/ \E in \in EntryInputsRefused, note \in NoteInputs :
       saveEditedEntry(in.name, in.calories, note, "burned")
  \/ \E goal \in GoalInputsRefused :
       onSave(goal) /\ Within(MaxInits, MaxSaves)'
  \/ \E in \in CalculatorInputsRefused :
       onCalculate(in.sex, in.activity, in.goalType, in.weight, in.height,
                   in.age, in.changePerWeek)

\* The nutrition lookup dialog, the calls being recorded.
UsdaKeyInputs == {<<"k", "e", "y">>, <<" ">>}

UsdaQueryInputs == {<<"o", "a", "t", "s", " ">>, <<"t", "e", "a">>, <<" ">>}

NextLookup ==
  \/ InitializeCaloriesStateSlice /\ Within(MaxInits, MaxSaves)'
  \/ \E i \in DOMAIN loads :
       GetCalorieGoalResolves(i) /\ Within(MaxInits, MaxSaves)'
  \/ \E i \in DOMAIN loads :
       GetCalorieEntriesResolves(i) /\ Within(MaxInits, MaxSaves)'
  \/ openUsdaDialog
  \/ closeUsdaDialog
  \/ \E key \in UsdaKeyInputs, query \in UsdaQueryInputs :
       fetchUsdaFoods(key, query) /\ Len(fetches') <= MaxFetches
  \/ \E k \in DOMAIN fetches : FetchResolves(k)
  \/ \E k \in DOMAIN fetches : FetchFails(k)
  \/ \E food \in Range(usda.results) :
       /\ usda.dialogOpen /\ ~usda.loading
       /\ handleSelectUsdaFood(food)
       /\ Within(MaxInits, MaxSaves)'

\* The goal screen and the calculator screen, the calls being recorded.
InitCalculator ==
  InitWith({}, <<[name |-> "none", arg |-> <<>>, tick |-> 0]>>)

NextCalculator ==
  \/ InitializeCaloriesStateSlice /\ Within(MaxInits, MaxSaves)'
  \/ \E i \in DOMAIN loads :
       GetCalorieGoalResolves(i) /\ Within(MaxInits, MaxSaves)'
  \/ \E i \in DOMAIN loads :
       GetCalorieEntriesResolves(i) /\ Within(MaxInits, MaxSaves)'
  \/ \E goal \in GoalInputsWide : onSave(goal) /\ Within(MaxInits, MaxSaves)'
  \/ \E name \in NameInputs, cal \in CalorieInputs, note \in NoteInputs :
       /\ saveManualEntry("consumed", name, cal, note)
       /\ Within(MaxInits, MaxSaves)'
  \/ \E in \in CalculatorInputs :
       onCalculate(in.sex, in.activity, in.goalType, in.weight, in.height,
                   in.age, in.changePerWeek)
  \/ onApplyGoal /\ Within(MaxInits, MaxSaves)'

SpecCalculator == InitCalculator /\ [][NextCalculator]_vars

\* The same start with the nutrition lookup dialog.
SpecLookup == InitCalculator /\ [][NextLookup]_vars

\* The same start with what the handlers must refuse.
SpecRefused == InitCalculator /\ [][NextRefused]_vars

----------------------------------------------------------------------------
(* The slice on its own: caloriesReducer applied to the actions a caller can
   build with the slice's action creators *)

\* Identifiers a caller of the slice may use.
StoreIds == {1, 2, 3}

\* Payloads a caller can hand to addEntry (and to updateEntry): well-formed
\* entries, and entries whose calories are zero or negative.
EntryPayloads ==
  [id : StoreIds, name : {<<"t", "e", "a">>}, calories : {120},
   type : {"consumed"}, note : {<<>>}, source : {"manual"},
   recordedAtIso : {NowHours}]
  \cup
  [id : {1}, name : {<<"t", "e", "a">>}, calories : {120, 0, -5},
   type : {"burned"}, note : {<<>>}, source : {"manual"},
   recordedAtIso : {NowHours}]

GoalPayloads == {1800}

\* caloriesReducer(state, action), the state being the slice's.
Reduce(action) ==
  /\ calories' = caloriesReducer(calories, action)
  /\ UNCHANGED <<disk, disk0, loads, saves, held, dispatched, nextId,
                 selectedDate, editingEntry, errors, calculator, searchText,
                 usda, fetches>>

InitStore ==
  /\ calories \in {initialState, setCaloriesHydrated(initialState, TRUE)}
  /\ disk0 \in [goal : StoredGoals, entries : StoredEntries]
  /\ disk = disk0
  /\ loads = <<>>
  /\ saves = <<>>
  /\ held = {}
  /\ dispatched = 0
  /\ nextId = 1
  /\ selectedDate = LocalDateNow
  /\ editingEntry = <<>>
  /\ errors = [manual |-> FALSE, edit |-> FALSE, goal |-> FALSE,
               usda |-> FALSE]
  /\ calculator = [calorieTarget |-> <<>>, deltaPerDay |-> <<>>,
                   error |-> FALSE, applySuccess |-> FALSE]
  /\ lastCall = <<[name |-> "none", arg |-> <<>>, tick |-> 0]>>
  /\ PageInit

ReduceAddEntry(entry) ==
  /\ Reduce(Action("addEntry", entry))
  /\ Called("addEntry", entry)
  /\ Len(calories'.entries) <= MaxEntries

ReduceRemoveEntry(id) ==
  /\ Reduce(Action("removeEntry", id))
  /\ Called("removeEntry", id)

ReduceUpdateEntry(entry) ==
  /\ Reduce(Action("updateEntry", entry))
  /\ Called("updateEntry", entry)

ReduceSetDailyGoal(goal) ==
  /\ Reduce(Action("setDailyGoal", goal))
  /\ Called("setDailyGoal", goal)

NextStore ==
  \/ \E entry \in EntryPayloads : ReduceAddEntry(entry)
  \/ \E id \in StoreIds : ReduceRemoveEntry(id)
  \/ \E entry \in EntryPayloads : ReduceUpdateEntry(entry)
  \/ \E goal \in GoalPayloads : ReduceSetDailyGoal(goal)

SpecStore == InitStore /\ [][NextStore]_vars

----------------------------------------------------------------------------
(* Properties *)

isHydrated == calories.isHydrated

DiskPair == <<disk.goal, disk.entries>>

Disk0Pair == <<disk0.goal, disk0.entries>>

Payload(save) == <<save.goal, save.entries>>

InFlight(save) == save.goalSt = "pending" /\ save.entriesSt = "pending"

\* C1: no write is started while the slice is not hydrated, whatever is
\* dispatched; a step that starts writes starts them from a hydrated slice,
\* and each write carries the (dailyGoal, entries) pair the slice held right
\* after the dispatch that triggered it.
HydrationOrdering ==
  /\ [](~isHydrated => saves = <<>>)
  /\ [][Len(saves') > Len(saves) =>
          /\ isHydrated
          /\ Len(saves') <= Len(saves) + 2
          /\ \A k \in (Len(saves) + 1)..Len(saves') : InFlight(saves'[k])
          /\ Payload(saves'[Len(saves')]) = Snapshot(calories')
          /\ Len(saves') = Len(saves) + 2 =>
               Payload(saves'[Len(saves) + 1]) =
                 <<calories'.dailyGoal, calories.entries>>]_vars

HydrationOrderingWitness ==
  /\ isHydrated
  /\ dispatched = 1
  /\ Len(saves) = 1
  /\ InFlight(saves[1])
  /\ Payload(saves[1]) = Snapshot(calories)
  /\ Snapshot(calories) # Disk0Pair

\* C2: the step that hydrates the slice starts no write, and when it is taken
\* the preference service still holds what it held at start; the slice then
\* holds those values, not the defaults.
StartupLoadNeverWritesBack ==
  [][~isHydrated /\ isHydrated' =>
       /\ saves' = <<>>
       /\ disk = disk0
       /\ disk' = disk0
       /\ Snapshot(calories') = Disk0Pair]_vars

StartupLoadNeverWritesBackWitness ==
  /\ isHydrated
  /\ saves = <<>>
  /\ disk = disk0
  /\ dispatched = 1
  /\ Disk0Pair # Snapshot(initialState)
  /\ Snapshot(calories) = Disk0Pair

\* C3 (as claimed): once the slice is hydrated, every action a screen handler
\* dispatches (setDailyGoal, addEntry, removeEntry, updateEntry) starts one
\* write of the pair the slice holds after it.
EveryMutationPersisted ==
  [][dispatched' # dispatched /\ isHydrated =>
       /\ Len(saves') = Len(saves) + 1
       /\ InFlight(saves'[Len(saves')])
       /\ Payload(saves'[Len(saves')]) = Snapshot(calories')]_vars

\* C4 (as claimed): once every write of every save has completed, the
\* preference service holds the pair the slice holds.
ConvergenceUnderOverlap ==
  ( /\ isHydrated
    /\ saves # <<>>
    /\ \A k \in DOMAIN saves :
         saves[k].goalSt = "ok" /\ saves[k].entriesSt = "ok" )
  => DiskPair = Snapshot(calories)

\* C5 (as claimed): whenever no write is in flight, the pair the preference
\* service holds is one the slice held at a single moment (or the pair it
\* held at start).
WholeSnapshotWrites ==
  (\A k \in DOMAIN saves : saveSettled(saves[k]))
  => DiskPair \in held \cup {Disk0Pair}

\* C6: isHydrated is FALSE until a load has been applied, TRUE from then on,
\* and no step takes it from TRUE to FALSE.
HydrationTerminal ==
  /\ [](isHydrated <=> \E i \in DOMAIN loads : loads[i].applied)
  /\ [][isHydrated => isHydrated']_vars

HydrationTerminalWitness ==
  /\ isHydrated
  /\ Len(saves) = 1
  /\ saveSettled(saves[1])
  /\ editingEntry # <<>>

\* C7 (as claimed): over the life of the process at most one load is applied
\* to the slice.
ExactlyOnceLoad ==
  Cardinality({i \in DOMAIN loads : loads[i].applied}) <= 1

\* C8: the step that hydrates the slice is the step in which the second of a
\* load's two reads resolves, the other having resolved before, and after it
\* the slice holds the goal and the entries that load read.
LoadJoin ==
  /\ [](isHydrated =>
          \E i \in DOMAIN loads :
            loads[i].applied /\ loads[i].goalSt = "ok"
              /\ loads[i].entriesSt = "ok")
  /\ [][~isHydrated /\ isHydrated' =>
          \E i \in DOMAIN loads :
            /\ loads'[i].applied
            /\ loads'[i].goalSt = "ok" /\ loads'[i].entriesSt = "ok"
            /\ \/ loads[i].goalSt = "ok" /\ loads[i].entriesSt = "pending"
               \/ loads[i].goalSt = "pending" /\ loads[i].entriesSt = "ok"
            /\ calories'.dailyGoal =
                 IF loads[i].goalSt = "ok" THEN loads[i].goal ELSE disk.goal
            /\ calories'.entries =
                 IF loads[i].entriesSt = "ok" THEN loads[i].entries
                 ELSE disk.entries]_vars

LoadJoinWitness ==
  /\ isHydrated
  /\ dispatched = 0
  /\ Len(loads) = 1
  /\ loads[1].applied
  /\ calories.dailyGoal = disk0.goal
  /\ calories.entries = disk0.entries

\* C9: a load one of whose reads has failed is never applied, and a step in
\* which a read of such a load settles changes neither the slice nor the
\* writes started nor the preference service.
LoadFailure ==
  /\ [](\A i \in DOMAIN loads :
          (loads[i].goalSt = "failed" \/ loads[i].entriesSt = "failed")
            => ~loads[i].applied)
  /\ [][\A i \in DOMAIN loads :
          ( /\ loads'[i] # loads[i]
            /\ (loads'[i].goalSt = "failed" \/ loads'[i].entriesSt = "failed") )
          => UNCHANGED <<calories, saves, disk>>]_vars

LoadFailureWitness ==
  /\ Len(loads) = 1
  /\ loads[1].goalSt = "ok"
  /\ loads[1].entriesSt = "failed"
  /\ ~isHydrated
  /\ saves = <<>>

\* C10 (as claimed): after a save with a failed write, once both writes of
\* the next save have succeeded the preference service holds the pair the
\* slice holds.
SaveFailureConverges ==
  \A k \in DOMAIN saves :
    ( /\ k + 1 = Len(saves)
      /\ (saves[k].goalSt = "failed" \/ saves[k].entriesSt = "failed")
      /\ saves[k + 1].goalSt = "ok"
      /\ saves[k + 1].entriesSt = "ok" )
    => DiskPair = Snapshot(calories)

\* C11 (as claimed): an entry in the slice stays in the slice in every step
\* but one in which a handler dispatches removeEntry with its id; this
\* includes an entry added while the first load is still in flight.
DestroyedOnlyByDelete ==
  [][\A entry \in Range(calories.entries) :
       entry \notin Range(calories'.entries) =>
         /\ dispatched' # dispatched
         /\ editingEntry # <<>>
         /\ editingEntry[1].id = entry.id]_vars

Ids(entries) == {entry.id : entry \in Range(entries)}

\* The last call was `name`, in a run that records calls.
LastCalled(name) == lastCall # <<>> /\ lastCall[1].name = name

\* C12: from any slice holding neither id, addEntry(e1); addEntry(e2) with
\* valid entries of distinct ids gives a slice holding both and everything
\* held before, and removeEntry(e1.id) after them gives a slice holding e2
\* and everything held before, and not e1.
AddAddRemove ==
  \A e1, e2 \in EntryPayloads :
    ( /\ e1.calories > 0 /\ e2.calories > 0
      /\ e1.id # e2.id
      /\ e1.id \notin Ids(calories.entries)
      /\ e2.id \notin Ids(calories.entries) )
    =>
    LET added1 == caloriesReducer(calories, Action("addEntry", e1))
        added2 == caloriesReducer(added1, Action("addEntry", e2))
        removed == caloriesReducer(added2, Action("removeEntry", e1.id))
    IN /\ {e1, e2} \subseteq Range(added2.entries)
       /\ Range(calories.entries) \subseteq Range(added2.entries)
       /\ e2 \in Range(removed.entries)
       /\ e1 \notin Range(removed.entries)
       /\ e1.id \notin Ids(removed.entries)
       /\ Range(calories.entries) \subseteq Range(removed.entries)
       /\ Len(removed.entries) = Len(calories.entries) + 1

AddAddRemoveWitness ==
  /\ LastCalled("removeEntry")
  /\ lastCall[1].arg = 1
  /\ Len(calories.entries) = 2
  /\ calories.entries[1].id = 2
  /\ calories.entries[2].id = 3
  /\ \A entry \in Range(calories.entries) : entry.calories > 0

\* The step is a call of `name`, in a run that records calls.
Calls(name) ==
  /\ lastCall # <<>>
  /\ lastCall' # <<>>
  /\ lastCall'[1].tick # lastCall[1].tick
  /\ lastCall'[1].name = name

\* C13 (as claimed): addEntry with an entry whose calories are zero or
\* negative is rejected, leaving entries, dailyGoal and isHydrated as they
\* were.
AddEntryRejectsNonPositive ==
  [][Calls("addEntry") /\ lastCall'[1].arg.calories <= 0 =>
       calories' = calories]_vars

\* C14 (as claimed): every entry in the slice, those made by the manual
\* dialog, by selecting a lookup candidate or by the edit dialog included,
\* has calories of at least 1.
StoredCaloriesPositive ==
  \A entry \in Range(calories.entries) : entry.calories >= 1

\* C15 (as claimed): whatever is reduced from the empty slice, no two entries
\* of the slice share an id (an addEntry with an id already present adds no
\* second entry).
UniqueIds ==
  \A i, j \in DOMAIN calories.entries :
    i # j => calories.entries[i].id # calories.entries[j].id

\* C16: removeEntry(id) with an id no entry has leaves the slice as it was;
\* otherwise it leaves no entry with the id, keeps every other entry, as many
\* times and in the same relative order, and leaves dailyGoal and isHydrated
\* as they were.
RemoveEntryFrame ==
  [][Calls("removeEntry") =>
       LET id == lastCall'[1].arg
           old == calories.entries
           new == calories'.entries
       IN /\ id \notin Ids(old) => calories' = calories
          /\ id \notin Ids(new)
          /\ Len(new) = Cardinality({i \in DOMAIN old : old[i].id # id})
          /\ \E f \in [DOMAIN new -> DOMAIN old] :
               /\ \A i \in DOMAIN new : new[i] = old[f[i]]
               /\ \A i, j \in DOMAIN new : i < j => f[i] < f[j]
          /\ calories'.dailyGoal = calories.dailyGoal
          /\ calories'.isHydrated = calories.isHydrated]_vars

RemoveEntryFrameWitness ==
  /\ LastCalled("removeEntry")
  /\ lastCall[1].arg = 2
  /\ Len(calories.entries) = 2
  /\ calories.entries[1].id = 3
  /\ calories.entries[2].id = 1
  /\ calories.dailyGoal # DefaultGoal
  /\ calories.isHydrated

\* C17 (as claimed): updateEntry(entry), when the slice has an entry with
\* entry.id, puts the payload in its place: the payload is then in the
\* slice, the number of entries is the same, and every other entry,
\* dailyGoal and isHydrated are as they were.
UpdateEntryReplaces ==
  [][Calls("updateEntry") /\ lastCall'[1].arg.id \in Ids(calories.entries) =>
       LET entry == lastCall'[1].arg
           old == calories.entries
           new == calories'.entries
       IN /\ entry \in Range(new)
          /\ Len(new) = Len(old)
          /\ \A i \in DOMAIN old :
               new[i] = IF old[i].id = entry.id THEN entry ELSE old[i]
          /\ calories'.dailyGoal = calories.dailyGoal
          /\ calories'.isHydrated = calories.isHydrated]_vars

DailyGoalPositive == calories.dailyGoal > 0

\* C20: computing a recommendation leaves the slice as it was, and applying
\* one leaves entries and isHydrated as they were, dailyGoal becoming the
\* recommendation when there is one and staying as it was when there is none.
RecommendationFrame ==
  [][/\ Calls("onCalculate") => calories' = calories
     /\ Calls("onApplyGoal") =>
          /\ calories'.entries = calories.entries
          /\ calories'.isHydrated = calories.isHydrated
          /\ calories'.dailyGoal =
               IF calculator.calorieTarget # <<>>
                 THEN calculator.calorieTarget[1]
                 ELSE calories.dailyGoal]_vars

RecommendationFrameWitness ==
  /\ LastCalled("onApplyGoal")
  /\ calculator.applySuccess
  /\ isHydrated
  /\ calories.entries = disk0.entries
  /\ calories.entries # <<>>
  /\ calculator.calorieTarget = <<2209>>
  /\ calories.dailyGoal = 2209

----------------------------------------------------------------------------
(* The day's totals *)

\* The positions in the store of the entries of a type whose recordedAt is
\* of the day in the device's zone.
OfDay(entries, type, date) ==
  { i \in DOMAIN entries :
      /\ entries[i].type = type
      /\ toLocalDate(entries[i].recordedAtIso) = date }

RECURSIVE SumAt(_, _)
SumAt(entries, positions) ==
  IF positions = {} THEN 0
  ELSE LET i == CHOOSE j \in positions : TRUE
       IN entries[i].calories + SumAt(entries, positions \ {i})

\* The store's entries with those at positions i and i + 1 exchanged.
Exchanged(entries, i) ==
  [entries EXCEPT ![i] = entries[i + 1], ![i + 1] = entries[i]]

DaySummary(entries) ==
  summary(entriesForSelectedDay(entries, selectedDate), calories.dailyGoal)

\* C21: on the selected day, consumed is the sum of the calories of exactly
\* the consumed entries whose recordedAt is of that day in the device's zone,
\* burned the same sum over the burned entries, net is consumed - burned and
\* what remains is goal - net; the entries of other days add nothing, and
\* the order of the store does not change the result.
DayAggregation ==
  LET entries == calories.entries
      shown == DaySummary(entries)
      consumed == SumAt(entries, OfDay(entries, "consumed", selectedDate))
      burned == SumAt(entries, OfDay(entries, "burned", selectedDate))
  IN /\ shown.consumed = consumed
     /\ shown.burned = burned
     /\ shown.net = consumed - burned
     /\ goalDifference(shown) = calories.dailyGoal - (consumed - burned)
     /\ \A i \in 1..(Len(entries) - 1) :
          DaySummary(Exchanged(entries, i)) = shown

\* The specification's example: 500 consumed and 200 burned today, 300
\* consumed tomorrow, goal 2000.
DayAggregationWitness ==
  /\ Range(calories.entries) = DayEntries
  /\ calories.dailyGoal = 2000
  /\ selectedDate = LocalDateNow
  /\ DaySummary(calories.entries)
       = [goal |-> 2000, consumed |-> 500, burned |-> 200, net |-> 300]
  /\ goalDifference(DaySummary(calories.entries)) = 1700

\* The days the page can show, and one more on each side.
Days == (LocalDateNow - MaxDays - 1)..(LocalDateNow + MaxDays + 1)

\* The totals of a day without the goal.
DayTotals(entries, date) ==
  LET shown == summary(entriesForSelectedDay(entries, date), 0)
  IN [consumed |-> shown.consumed, burned |-> shown.burned]

\* C22: an entry made while the selected day is D, today or not, has a
\* recordedAt of day D and of the current local time of day in the device's
\* zone; it is in D's list and totals and in those of no other day.
CreatedOnSelectedDay ==
  [][(Calls("saveManualEntry") \/ Calls("handleSelectUsdaFood"))
       /\ Len(calories'.entries) = Len(calories.entries) + 1
     => LET entry == Head(calories'.entries)
            added == [consumed |-> IF entry.type = "consumed"
                                     THEN entry.calories ELSE 0,
                      burned |-> IF entry.type = "burned"
                                   THEN entry.calories ELSE 0]
        IN /\ toLocalDate(entry.recordedAtIso) = selectedDate
           /\ toLocalTime(entry.recordedAtIso) = toLocalTime(NowHours)
           /\ \A date \in Days :
                LET before == DayTotals(calories.entries, date)
                    after == DayTotals(calories'.entries, date)
                    listed ==
                      entry \in Range(entriesForSelectedDay(calories'.entries,
                                                            date))
                IN IF date = selectedDate
                     THEN /\ listed
                          /\ after.consumed = before.consumed + added.consumed
                          /\ after.burned = before.burned + added.burned
                     ELSE ~listed /\ after = before]_vars

\* An entry made on a day that is not today, listed on that day.
CreatedOnSelectedDayWitness ==
  /\ LastCalled("saveManualEntry")
  /\ selectedDate # LocalDateNow
  /\ \E entry \in Range(entriesForSelectedDay(calories.entries, selectedDate)) :
       entry.id = 1 /\ entry.calories > 0

----------------------------------------------------------------------------
(* Search *)

\* The query occurs in the text, letters compared without their case.
OccursIn(query, text) ==
  \E offset \in 0..(Len(text) - Len(query)) :
    \A j \in 1..Len(query) :
      toLocaleLowerCase(<<text[offset + j]>>) = toLocaleLowerCase(<<query[j]>>)

NoteText(entry) == IF entry.note = <<>> THEN <<>> ELSE entry.note[1]

ShownEntries ==
  filteredEntries(entriesForSelectedDay(calories.entries, selectedDate),
                  searchText)

\* C23 (as amended): the search returns exactly the selected day's entries
\* in which the query occurs, case aside, in the name, a space and the note
\* put together, an absent note counting as the empty text.
SearchFilterSpaced ==
  ShownEntries
    = SelectSeq(entriesForSelectedDay(calories.entries, selectedDate),
                LAMBDA entry :
                  OccursIn(searchText, entry.name \o <<" ">> \o NoteText(entry)))

\* A query found in the note alone, in another case: the entry is returned,
\* the day's other entry is not.
SearchFilterSpacedWitness ==
  /\ searchText = <<"r", "y", "e">>
  /\ Len(entriesForSelectedDay(calories.entries, selectedDate)) = 2
  /\ Len(ShownEntries) = 1
  /\ ShownEntries[1].name = <<"E", "g", "g">>
  /\ ~OccursIn(searchText, ShownEntries[1].name)

\* C23: the search returns exactly the selected day's entries in which the
\* query occurs, case aside, in the name and the note put together, an
\* absent note counting as the empty text.
SearchFilter ==
  ShownEntries
    = SelectSeq(entriesForSelectedDay(calories.entries, selectedDate),
                LAMBDA entry :
                  OccursIn(searchText, entry.name \o NoteText(entry)))

----------------------------------------------------------------------------
(* The goal calculator.  Energies are in 1/8000 kcal, as above *)

\* The activity factors, in thousandths.
ActivityFactor ==
  [sedentary |-> 1200, light |-> 1375, moderate |-> 1550, active |-> 1725,
   very |-> 1900]

\* 8000 * TDEE by Mifflin-St Jeor, from typed values in tenths and the age:
\* 10 * kg is the weight in tenths, 8 * 6.25 * cm is 5 * the height in tenths.
Tdee8000(in) ==
  LET bmrLessHeight == in.weight.tenths - 5 * ParseInt(in.age)
                         + (IF in.sex = "male" THEN 5 ELSE -161)
  IN (8 * bmrLessHeight + 5 * in.height.tenths) * ActivityFactor[in.activity]

\* 8000 * the daily change: weeklyChangeKg * 7700 / 7.
Delta8000(in) == (in.changePerWeek.tenths * 800 * 7700) \div 7

\* n is the whole number nearest to x / 8000, halves going up.
Nearest(n, x) == 8000 * n - 4000 <= x /\ x < 8000 * n + 4000

\* C24: for valid inputs and a loss or a gain, the target is
\* max(0, round(TDEE - dailyDelta)) for a loss and
\* max(0, round(TDEE + dailyDelta)) for a gain, a whole number that is not
\* negative, and the change shown is round(weeklyChangeKg * 7700 / 7); a
\* male of 80 kg, 180 cm and 30 years, moderately active, losing 0.5 kg a
\* week gets 2209 and 550.
GoalCalculation ==
  [][Calls("onCalculate") /\ ~calculator'.error
       /\ lastCall'[1].arg.goalType # "maintain"
     => LET in == lastCall'[1].arg
            x == IF in.goalType = "loss"
                   THEN Tdee8000(in) - Delta8000(in)
                   ELSE Tdee8000(in) + Delta8000(in)
        IN /\ calculator'.calorieTarget # <<>>
           /\ calculator'.deltaPerDay # <<>>
           /\ calculator'.calorieTarget[1] \in Nat
           /\ IF x < 4000
                THEN calculator'.calorieTarget[1] = 0
                ELSE Nearest(calculator'.calorieTarget[1], x)
           /\ Nearest(calculator'.deltaPerDay[1], Delta8000(in))]_vars

GoalCalculationWitness ==
  /\ LastCalled("onCalculate")
  /\ lastCall[1].arg
       = CalculatorInput("male", "moderate", "loss", Parsed(TRUE, 800),
                         Parsed(TRUE, 1800), Parsed(TRUE, 300),
                         Parsed(TRUE, 5))
  /\ ~calculator.error
  /\ calculator.calorieTarget = <<2209>>
  /\ calculator.deltaPerDay = <<550>>

\* Weight, height and age pass the calculator's checks.
ValidBody(in) ==
  /\ in.weight.finite /\ in.weight.tenths > 0
  /\ in.height.finite /\ in.height.tenths > 0
  /\ in.age.finite /\ ParseInt(in.age) > 0

\* C25 (as amended): with the goal type maintain, valid sex, weight, height,
\* age and activity level and any weekly change typed, the calculation
\* succeeds with a daily change of 0 and the target max(0, round(TDEE)).
MaintainClamped ==
  [][Calls("onCalculate") /\ lastCall'[1].arg.goalType = "maintain"
       /\ ValidBody(lastCall'[1].arg)
     => LET in == lastCall'[1].arg
        IN /\ ~calculator'.error
           /\ calculator'.deltaPerDay = <<0>>
           /\ calculator'.calorieTarget # <<>>
           /\ IF Tdee8000(in) < 4000
                THEN calculator'.calorieTarget[1] = 0
                ELSE Nearest(calculator'.calorieTarget[1], Tdee8000(in))]_vars

\* Maintain with a weekly change of 0.5 typed: 2759 and 0.
MaintainClampedWitness ==
  /\ LastCalled("onCalculate")
  /\ lastCall[1].arg.goalType = "maintain"
  /\ lastCall[1].arg.changePerWeek = Parsed(TRUE, 5)
  /\ calculator.calorieTarget = <<2759>>
  /\ calculator.deltaPerDay = <<0>>

\* C25: with the goal type maintain, valid sex, weight, height, age and
\* activity level and any weekly change typed, the daily change is 0 and
\* the target is round(TDEE).
Maintain ==
  [][Calls("onCalculate") /\ lastCall'[1].arg.goalType = "maintain"
       /\ ValidBody(lastCall'[1].arg)
     => /\ calculator'.deltaPerDay = <<0>>
        /\ calculator'.calorieTarget # <<>>
        /\ Nearest(calculator'.calorieTarget[1],
                   Tdee8000(lastCall'[1].arg))]_vars

----------------------------------------------------------------------------
(* Refused input *)

\* What the manual and edit dialogs must refuse: a blank name, or calories
\* that are no number or not above zero.
EntryRefused(in) ==
  Trim(in.name) = <<>> \/ ~in.calories.finite \/ in.calories.tenths <= 0

\* What the calculator must refuse.
CalculationRefused(in) ==
  \/ ~ValidBody(in)
  \/ /\ in.goalType # "maintain"
     /\ (~in.changePerWeek.finite \/ in.changePerWeek.tenths <= 0)

\* The step leaves the slice and the preference service as they were and
\* dispatches nothing.
NothingApplied ==
  /\ calories' = calories
  /\ dispatched' = dispatched
  /\ saves' = saves
  /\ disk' = disk
  /\ nextId' = nextId

\* C26: a manual add or an edit with a blank name or with calories that are
\* no number or not above zero, a goal save with a value not above zero and
\* a calculation with a weight, height, age or (unless maintain) weekly
\* change not above zero each leave the slice as it was, set an error and
\* dispatch nothing.
ValidationAtomic ==
  [][/\ Calls("saveManualEntry") /\ EntryRefused(lastCall'[1].arg)
        => NothingApplied /\ errors'.manual
     /\ Calls("saveEditedEntry") /\ EntryRefused(lastCall'[1].arg)
        => NothingApplied /\ errors'.edit /\ editingEntry' = editingEntry
     /\ Calls("onSave")
          /\ (~lastCall'[1].arg.finite \/ lastCall'[1].arg.tenths <= 0)
        => NothingApplied /\ errors'.goal
     /\ Calls("onCalculate") /\ CalculationRefused(lastCall'[1].arg)
        => /\ NothingApplied
           /\ calculator'.error
           /\ calculator'.calorieTarget = <<>>
           /\ calculator'.deltaPerDay = <<>>]_vars

\* An edit refused for its calories, the slice holding a loaded entry and
\* an added one.
ValidationAtomicWitness ==
  /\ LastCalled("saveEditedEntry")
  /\ EntryRefused(lastCall[1].arg)
  /\ Trim(lastCall[1].arg.name) # <<>>
  /\ errors.edit
  /\ editingEntry # <<>>
  /\ calories.isHydrated
  /\ Len(calories.entries) = 2

----------------------------------------------------------------------------
(* The nutrition lookup *)

\* The candidate has a nutrient of number 208 or of the name energy, case
\* aside, that carries a value.
HasEnergyValue(food) ==
  \E i \in DOMAIN food.foodNutrients :
    LET nutrient == food.foodNutrients[i]
    IN /\ \/ nutrient.nutrientNumber = "208"
          \/ /\ Len(nutrient.nutrientName) = 6
             /\ OccursIn(<<"e", "n", "e", "r", "g", "y">>,
                         nutrient.nutrientName)
       /\ nutrient.value # <<>>

\* A request settles as failed in the step.
FetchFailed ==
  \E k \in DOMAIN fetches :
    /\ k \in DOMAIN fetches'
    /\ fetches[k].status = "pending"
    /\ fetches'[k].status = "failed"

\* C27: selecting a candidate that has no nutrient of number 208 or of the
\* name energy carrying a value adds no entry, shows an error and leaves the
\* slice as it was; a request that fails leaves the slice as it was.
NoEnergyNoEntry ==
  [][/\ Calls("handleSelectUsdaFood") /\ ~HasEnergyValue(lastCall'[1].arg)
        => NothingApplied /\ errors'.usda
     /\ FetchFailed => NothingApplied]_vars

\* A candidate with a nutrient 208 that carries no value, refused while the
\* slice holds the loaded entry.
NoEnergyNoEntryWitness ==
  /\ LastCalled("handleSelectUsdaFood")
  /\ lastCall[1].arg.description = <<"t", "e", "a">>
  /\ ~HasEnergyValue(lastCall[1].arg)
  /\ errors.usda
  /\ usda.dialogOpen
  /\ calories.isHydrated
  /\ calories.entries = disk0.entries
  /\ \E k \in DOMAIN fetches : fetches[k].status = "failed"

----------------------------------------------------------------------------
(* Editing *)

\* What an edit may not change, entry by entry in the order of the store.
Identity(entries) ==
  [i \in DOMAIN entries |->
     [id |-> entries[i].id, recordedAtIso |-> entries[i].recordedAtIso,
      source |-> entries[i].source]]

\* The ids of the entries of a day.
DayIds(entries, date) ==
  { entry.id : entry \in Range(entriesForSelectedDay(entries, date)) }

----------------------------------------------------------------------------
(* Writes *)

\* C29: once the slice is hydrated, a dispatched mutation that leaves
\* (dailyGoal, entries) as it was starts no write to the preference service,
\* and one that changes it starts one write of the goal and one of the
\* entries, of the new content.
NoRedundantWrites ==
  [][dispatched' # dispatched /\ calories.isHydrated
     => IF Snapshot(calories') = Snapshot(calories)
          THEN saves' = saves
          ELSE /\ Len(saves') = Len(saves) + 1
               /\ Payload(saves'[Len(saves')]) = Snapshot(calories')]_vars

\* Some request sent is not settled.
SomeFetchPending == \E k \in DOMAIN fetches : fetches[k].status = "pending"

\* C30: usdaLoading is true exactly while a request sent is not settled,
\* and once every request sent has settled the results shown are those of
\* the search pressed last, or none if the dialog was closed or opened
\* after it.
LookupShowsLastSearch ==
  /\ usda.loading <=> SomeFetchPending
  /\ fetches # <<>> /\ ~SomeFetchPending
       => LET last == fetches[Len(fetches)]
          IN IF last.stale THEN usda.results = <<>>
             ELSE last.status = "ok" => usda.results = UsdaAnswer(last.query)

====
